---- MODULE Spec2Model ----
(***************************************************************************)
(* Model of the intraday monitor (monitor_intraday_signals.py: main) and   *)
(* of the Feishu/Lark notifier (feishu_notice.py: send_to_lark).           *)
(*                                                                         *)
(* Strings of the source that are not ASCII are written in ASCII here:     *)
(*   "buy"      = 买入          "bias_buy"  = 偏买入                       *)
(*   "sell"     = 卖出          "bias_sell" = 偏卖出                       *)
(*   "buy_now"  = 立即买入      "sell_now"  = 立即卖出                     *)
(*   "retry_failed" = the suffix 重试失败 of the follow-up message         *)
(***************************************************************************)
EXTENDS Integers, Sequences, FiniteSets, TLC

VARIABLES
    cfg,            \* the configuration block of main (lines 88-107)
    last_printed,   \* main: last_printed, code -> last surfaced label
    pc,             \* position of main's while-loop
    idx,            \* position of `for code in codes`
    tick,           \* number of loop iterations started
    cur,            \* history: what happened to each code in this tick
    prev,           \* history: what happened to each code in the previous tick
    own_label,      \* history: the label each code's own processing last surfaced
    nap,            \* history: the last end-of-tick sleep (cost and duration)
    gate,           \* history: what the trading-hours gate of this tick saw
    inp,            \* what the adapters hand to a signal function
    out,            \* what the signal function returned
    stack,          \* call stack of send_to_lark (innermost frame last)
    calls,          \* history: one record per send_to_lark invocation
    ret             \* result of the last top-level send_to_lark call

vars == <<cfg, last_printed, pc, idx, tick, cur, prev, own_label, nap, gate,
         inp, out, stack, calls, ret>>
loopVars == <<cfg, last_printed, pc, idx, tick, cur, prev, own_label, nap,
              gate>>
engineVars == <<inp, out>>
monitorVars == <<loopVars, engineVars>>
larkVars == <<stack, calls, ret>>

(***************************************************************************)
(* Bounds                                                                  *)
(***************************************************************************)
MaxTicks == 3        \* loop iterations explored
MaxRetries == 3      \* largest max_retries argument explored
MaxDepth == 3        \* deepest send_to_lark recursion explored
MaxOverrun == 30     \* longest overrun of a tick beyond interval, seconds
MaxLen == 25         \* longest persisted series explored
TailLen == 2         \* rows at the end of a series whose close is free

(***************************************************************************)
(* Values                                                                  *)
(***************************************************************************)
None == "None"                       \* Python None / absent dict key
codes == <<"159218", "159840">>      \* main: codes
Codes == {codes[k] : k \in 1..Len(codes)}
Labels == {"buy", "bias_buy"}        \* non-empty signal labels explored
DefaultMaxRetries == 3               \* send_to_lark: max_retries default
DefaultRetryDelay == 2               \* send_to_lark: retry_delay default
interval == 60                       \* main: interval, seconds

\* Configuration as main sets it.
ShippedCfg ==
    [ print_bias        |-> FALSE,
      all_day           |-> TRUE,
      enable_feishu     |-> TRUE,
      enable_deepseek   |-> TRUE,
      use_t_signal      |-> TRUE,
      print_all_signals |-> TRUE,
      FEISHU_ENABLED    |-> TRUE ]

(***************************************************************************)
(* feishu_notice.py: send_to_lark                                          *)
(***************************************************************************)

\* What one requests.post can bring back: the call raises (timeout, refused
\* connection), or a response with an HTTP status and a body that is not
\* JSON, JSON without StatusCode, or JSON with a StatusCode.
Raised == [raised |-> TRUE, status |-> 0, parsable |-> FALSE,
           has_code |-> FALSE, StatusCode |-> 0]
Responses ==
    {Raised} \cup
    [raised : {FALSE}, status : {200, 500}, parsable : {TRUE},
     has_code : {TRUE}, StatusCode : {0, 19001}] \cup
    [raised : {FALSE}, status : {200, 500}, parsable : {TRUE},
     has_code : {FALSE}, StatusCode : {0}] \cup
    [raised : {FALSE}, status : {200, 500}, parsable : {FALSE},
     has_code : {FALSE}, StatusCode : {0}]

\* History only: the sink accepted the message (HTTP 200 and StatusCode 0).
SinkAccepted(resp) ==
    resp.status = 200 /\ resp.has_code /\ resp.StatusCode = 0

\* Variant: the HTTP status alone decides.
DeliveredStatusOnly(resp) ==
    ~resp.raised /\ resp.parsable /\ resp.status = 200

\* Lines 45-75: the body of one loop iteration; TRUE when it reaches
\* `return True`. requests.post or response.json() raising lands in the
\* except branch; a missing StatusCode makes .get return None.
Delivered(resp) ==
    IF resp.raised THEN FALSE
    ELSE IF ~resp.parsable THEN FALSE
    ELSE resp.status = 200 /\ (resp.has_code /\ resp.StatusCode = 0)

\* Variant: error messages are the ones retried.
retry_count_errors_only(max_retries, is_error) ==
    IF is_error THEN max_retries ELSE 0

\* Line 42: retry_count = max_retries if not is_error else 0
retry_count(max_retries, is_error) ==
    IF ~is_error THEN max_retries ELSE 0

\* Variant: every failed call reports its own failure.
NeedsFollowupAlways(is_error) == TRUE

\* Line 85: `if not is_error` sends the follow-up message.
NeedsFollowup(is_error) == ~is_error

\* Line 87: f"{message}重试失败"
FollowupMessage(message) == Append(message, "retry_failed")

\* A new invocation: its frame (lines 21-42) and its history record.
NewFrame(message, is_error, max_retries, retry_delay, id) ==
    [ message |-> message, is_error |-> is_error,
      max_retries |-> max_retries, retry_delay |-> retry_delay,
      retry_count |-> retry_count(max_retries, is_error),
      attempt |-> 0, at |-> "loop", id |-> id ]

NewCall(message, is_error, max_retries, retry_delay, depth) ==
    [ message |-> message, is_error |-> is_error,
      max_retries |-> max_retries, retry_delay |-> retry_delay,
      depth |-> depth, attempts |-> 0, sleeps |-> 0, slept |-> 0,
      accepted |-> FALSE, after_accept |-> 0, rejected_200 |-> FALSE,
      ret |-> None ]

Top == stack[Len(stack)]
Pop == SubSeq(stack, 1, Len(stack) - 1)
SetTop(f) == [stack EXCEPT ![Len(stack)] = f]

\* Lines 44-82: one iteration of `for attempt in range(retry_count + 1)`.
LarkAttempt ==
    /\ stack # <<>>
    /\ Top.at = "loop"
    /\ \E resp \in Responses :
         LET f == Top
             c == calls[f.id]
             logged == [c EXCEPT !.attempts = @ + 1,
                                 !.accepted = @ \/ SinkAccepted(resp),
                                 !.after_accept =
                                     IF c.accepted THEN @ + 1 ELSE @,
                                 !.rejected_200 =
                                     @ \/ (resp.status = 200
                                            /\ ~SinkAccepted(resp))]
         IN  IF Delivered(resp)
             THEN \* line 70: return True
                  /\ stack' = Pop
                  /\ calls' = [calls EXCEPT ![f.id] =
                                  [logged EXCEPT !.ret = "True"]]
                  /\ ret' = IF Len(stack) = 1 THEN "True" ELSE ret
             ELSE IF f.attempt < f.retry_count
             THEN \* lines 78-80: time.sleep(retry_delay), next iteration
                  /\ stack' = SetTop([f EXCEPT !.attempt = @ + 1])
                  /\ calls' = [calls EXCEPT ![f.id] =
                                  [logged EXCEPT !.sleeps = @ + 1,
                                                 !.slept = @ + f.retry_delay]]
                  /\ ret' = ret
             ELSE \* lines 81-82: break
                  /\ stack' = SetTop([f EXCEPT !.at = "failed"])
                  /\ calls' = [calls EXCEPT ![f.id] = logged]
                  /\ ret' = ret
    /\ UNCHANGED monitorVars

\* Lines 85-87: a failed call sends the follow-up message, a recursive call
\* with the default max_retries and retry_delay.
LarkFollowup ==
    /\ stack # <<>>
    /\ Top.at = "failed"
    /\ NeedsFollowup(Top.is_error)
    /\ Len(stack) < MaxDepth
    /\ LET f == Top
           id == Len(calls) + 1
       IN  /\ stack' = Append(SetTop([f EXCEPT !.at = "wait"]),
                              NewFrame(FollowupMessage(f.message), TRUE,
                                       DefaultMaxRetries, DefaultRetryDelay,
                                       id))
           /\ calls' = Append(calls,
                              NewCall(FollowupMessage(f.message), TRUE,
                                      DefaultMaxRetries, DefaultRetryDelay,
                                      Len(stack) + 1))
    /\ UNCHANGED <<ret, monitorVars>>

\* Lines 88-91: a failed call that sends no follow-up logs and returns False.
LarkGiveUp ==
    /\ stack # <<>>
    /\ Top.at = "failed"
    /\ ~NeedsFollowup(Top.is_error)
    /\ stack' = Pop
    /\ calls' = [calls EXCEPT ![Top.id].ret = "False"]
    /\ ret' = IF Len(stack) = 1 THEN "False" ELSE ret
    /\ UNCHANGED monitorVars

\* Line 91: after the follow-up call came back (its result is dropped),
\* return False.
LarkAfterFollowup ==
    /\ stack # <<>>
    /\ Top.at = "wait"
    /\ stack' = Pop
    /\ calls' = [calls EXCEPT ![Top.id].ret = "False"]
    /\ ret' = IF Len(stack) = 1 THEN "False" ELSE ret
    /\ UNCHANGED monitorVars

\* A caller invokes send_to_lark(message, is_error, max_retries, retry_delay).
Invoke(message, is_error, max_retries, retry_delay) ==
    /\ stack' = <<NewFrame(message, is_error, max_retries, retry_delay, 1)>>
    /\ calls' = <<NewCall(message, is_error, max_retries, retry_delay, 1)>>
    /\ ret' = None

\* send_to_lark called on its own, with any arguments.
LarkCall ==
    /\ stack = <<>>
    /\ \E is_error \in BOOLEAN, max_retries \in 0..MaxRetries,
          retry_delay \in {1, DefaultRetryDelay} :
         Invoke(<<"message">>, is_error, max_retries, retry_delay)
    /\ UNCHANGED monitorVars

(***************************************************************************)
(* tushare_mcp.py: the series merger and the moving-average engines        *)
(***************************************************************************)

\* A persisted row is [date, close]; a date is a day number. The text form
\* of a day (strftime("%Y-%m-%d"), and the first field of a quote row) is
\* kept apart from the day itself.
DateStr(d) == <<"Y-m-d", d>>

\* Variant: the parsed day is the day after the one written.
ToDatetimeShifted(str) == str[2] + 1

\* Line 577: pd.to_datetime(rt_date)
ToDatetime(str) == str[2]

\* rolling(5) and rolling(20).
Short == 5
Long == 20
MinRows == 20

\* The series explored: n rows on the days 2, 4, .., 2n, whose closes
\* follow BaseClose + slope * i, the last TailLen rows shifted by a delta.
BaseClose == 100
Deltas == {-3, 0, 3}
Slopes == {0, 1}
Lens == {0, 1, MaxLen} \cup ((MinRows - 1)..(MinRows + 1))
Tails == [1..TailLen -> Deltas]

SeriesOf(n, slope, tail) ==
    [i \in 1..n |->
        [date |-> 2 * i,
         close |-> BaseClose + slope * i
                     + (IF i > n - TailLen THEN tail[i - (n - TailLen)]
                        ELSE 0)]]

\* Nothing handed over, nothing returned (the engines are not running).
NoInput == [kind |-> "none"]
NoOutput == [kind |-> "none"]

RECURSIVE SumCloses(_, _, _)
\* The sum of the closes of rows lo..hi.
SumCloses(rows, lo, hi) ==
    IF hi < lo THEN 0 ELSE rows[hi].close + SumCloses(rows, lo, hi - 1)

\* The place of a row in a series sorted by date: behind the rows whose
\* date is not later.
InsertByDate(sorted, row) ==
    LET k == Cardinality({i \in 1..Len(sorted) : sorted[i].date <= row.date})
    IN  SubSeq(sorted, 1, k) \o <<row>> \o SubSeq(sorted, k + 1, Len(sorted))

RECURSIVE SortByDate(_)
\* Variant: the frame is left in the order of the concatenation.
SortByDateSkipped(rows) == rows

\* Line 586: df.sort_values("trade_date")
SortByDate(rows) ==
    IF rows = <<>> THEN <<>>
    ELSE InsertByDate(SortByDate(SubSeq(rows, 1, Len(rows) - 1)),
                      rows[Len(rows)])

\* Variant: the live bar is always concatenated.
MergeAlwaysAppends(hist, rt_date, rt_close) ==
    Append(hist, [date |-> ToDatetime(rt_date), close |-> rt_close])

\* Lines 566-583: the live close replaces the close of the rows whose
\* date_str equals rt_date; with no such row one row is concatenated.
Merge(hist, rt_date, rt_close) ==
    LET date_str == [i \in 1..Len(hist) |-> DateStr(hist[i].date)]
    IN  IF \E i \in 1..Len(hist) : date_str[i] = rt_date
        THEN [i \in 1..Len(hist) |->
                 IF date_str[i] = rt_date
                 THEN [hist[i] EXCEPT !.close = rt_close]
                 ELSE hist[i]]
        ELSE Append(hist, [date |-> ToDatetime(rt_date), close |-> rt_close])

\* Lines 566-585: the series the averages are computed on.
MergedSeries(hist, rt_date, rt_close) ==
    SortByDate(Merge(hist, rt_date, rt_close))

\* An average is undefined (NaN) or a number; numbers are kept as
\* multiples of 1 / (Short * Long) so that they stay integers.
NaN == [def |-> FALSE, num |-> 0]
Num(x) == [def |-> TRUE, num |-> x * Short * Long]

\* rolling(w).mean() at row i: NaN before w rows are there.
RollingMean(rows, i, w) ==
    IF i < w THEN NaN
    ELSE [def |-> TRUE,
          num |-> SumCloses(rows, i - w + 1, i) * ((Short * Long) \div w)]

\* Comparisons of floats: every comparison with NaN is False.
Gt(x, y) == x.def /\ y.def /\ x.num > y.num
Lt(x, y) == x.def /\ y.def /\ x.num < y.num
Ge(x, y) == x.def /\ y.def /\ x.num >= y.num
Le(x, y) == x.def /\ y.def /\ x.num <= y.num

\* pd.notna
notna(x) == x.def

\* Lines 590-599: ma5, ma20 of the last row and of the row before it.
AveragesAt(rows, i) ==
    [ ma5 |-> RollingMean(rows, i, Short),
      ma20 |-> RollingMean(rows, i, Long),
      prev_ma5 |-> IF i - 1 >= 1 THEN RollingMean(rows, i - 1, Short) ELSE NaN,
      prev_ma20 |-> IF i - 1 >= 1 THEN RollingMean(rows, i - 1, Long) ELSE NaN ]

NoAverages == [ma5 |-> NaN, ma20 |-> NaN, prev_ma5 |-> NaN, prev_ma20 |-> NaN]

\* Variant: the previous averages must differ for a cross.
IntradayClassifyStrict(m) ==
    IF Lt(m.prev_ma5, m.prev_ma20) /\ Gt(m.ma5, m.ma20) THEN "buy"
    ELSE IF Gt(m.prev_ma5, m.prev_ma20) /\ Lt(m.ma5, m.ma20) THEN "sell"
    ELSE IF Gt(m.ma5, m.ma20) THEN "bias_buy"
    ELSE "bias_sell"

\* Variant: the trend is looked at before the crosses.
IntradayClassifyTrendFirst(m) ==
    IF Gt(m.ma5, m.ma20) THEN "bias_buy"
    ELSE IF Lt(m.ma5, m.ma20) THEN "bias_sell"
    ELSE IF Le(m.prev_ma5, m.prev_ma20) /\ Gt(m.ma5, m.ma20) THEN "buy"
    ELSE IF Ge(m.prev_ma5, m.prev_ma20) /\ Lt(m.ma5, m.ma20) THEN "sell"
    ELSE "bias_sell"

\* Variant: equal averages count as a rising trend.
IntradayClassifyTieIsBuy(m) ==
    IF Le(m.prev_ma5, m.prev_ma20) /\ Gt(m.ma5, m.ma20) THEN "buy"
    ELSE IF Ge(m.prev_ma5, m.prev_ma20) /\ Lt(m.ma5, m.ma20) THEN "sell"
    ELSE IF Ge(m.ma5, m.ma20) THEN "bias_buy"
    ELSE "bias_sell"

\* Variant: an undefined previous average stops the classification.
IntradayClassifyNeedsPrev(m) ==
    IF ~(notna(m.prev_ma5) /\ notna(m.prev_ma20)) THEN "hold"
    ELSE IF Le(m.prev_ma5, m.prev_ma20) /\ Gt(m.ma5, m.ma20) THEN "buy"
    ELSE IF Ge(m.prev_ma5, m.prev_ma20) /\ Lt(m.ma5, m.ma20) THEN "sell"
    ELSE IF Gt(m.ma5, m.ma20) THEN "bias_buy"
    ELSE "bias_sell"

\* intraday_trade_signal, lines 605-621: the signal ("hold" = 观望 is the
\* initial value and every branch overwrites it).
IntradayClassify(m) ==
    IF Le(m.prev_ma5, m.prev_ma20) /\ Gt(m.ma5, m.ma20) THEN "buy"
    ELSE IF Ge(m.prev_ma5, m.prev_ma20) /\ Lt(m.ma5, m.ma20) THEN "sell"
    ELSE IF Gt(m.ma5, m.ma20) THEN "bias_buy"
    ELSE "bias_sell"

\* intraday_trade_signal, lines 609-631: the texts joined into 依据.
IntradayReasons(m, live) ==
    (IF Le(m.prev_ma5, m.prev_ma20) /\ Gt(m.ma5, m.ma20)
       THEN <<"golden_cross">>
     ELSE IF Ge(m.prev_ma5, m.prev_ma20) /\ Lt(m.ma5, m.ma20)
       THEN <<"death_cross">>
     ELSE IF Gt(m.ma5, m.ma20) THEN <<"ma_bullish">>
     ELSE <<"ma_bearish">>)
    \o (IF Ge(Num(live.close), m.ma20) THEN <<"above_ma20">>
        ELSE <<"below_ma20">>)
    \o (IF live.close > live.open THEN <<"stronger_than_open">>
        ELSE IF live.close < live.open THEN <<"weaker_than_open">>
        ELSE <<>>)

\* Variant: the annotations take a bullish signal back.
SignalDowngradedByAnnotations(signal, reasons) ==
    IF /\ signal \in {"buy", "bias_buy"}
       /\ \E k \in 1..Len(reasons) :
              reasons[k] \in {"below_ma20", "weaker_than_open"}
    THEN "hold"
    ELSE signal

\* Lines 623-631 and 489-500 append to the reasons and leave `signal` as
\* the classification set it.
SignalAfterAnnotations(signal, reasons) == signal

\* What a signal function returns: the kind of text, the error marker the
\* text holds (as the monitor looks for it), the value of the signal field,
\* and for the claims the series and the averages behind it.
Reply(text, marker) ==
    [ kind |-> "reply", by |-> None, text |-> text, marker |-> marker,
      signal |-> None, reasons |-> <<>>, merged |-> <<>>, ma |-> NoAverages ]

\* Variant: only the short window has to be filled.
enough_rows_for_short_window(hist, merged) == ~(Len(merged) < Short)

\* Line 587: `if len(df) < 20` on the merged, sorted frame.
enough_rows(hist, merged) == ~(Len(merged) < MinRows)

\* Variant: an empty history is not noticed.
hist_empty_ignored(hist) == FALSE

\* Line 546: hist.empty
hist_empty(hist) == hist = <<>>

\* intraday_trade_signal(code), lines 541-650, on the history that
\* _mysql_load_close_history returns and the quote rows that
\* _eastmoney_fetch_kline_daily returns.
intraday_trade_signal(i) ==
    IF hist_empty(i.hist) THEN Reply("no_history", "no_mysql_history")
    ELSE IF i.fault = "none" THEN Reply("no_quote", "no_quote_data")
    ELSE IF i.fault = "short" THEN Reply("parse_failed", None)
    ELSE IF i.fault = "garbled" THEN Reply("error", "analysis_error")
    ELSE LET df == MergedSeries(i.hist, i.live.date, i.live.close)
         IN  IF ~enough_rows(i.hist, df)
             THEN [Reply("insufficient", None) EXCEPT !.merged = df]
             ELSE LET m == AveragesAt(df, Len(df))
                      reason == IntradayReasons(m, i.live)
                  IN  [ Reply("report", None) EXCEPT
                          !.signal =
                              SignalAfterAnnotations(IntradayClassify(m), reason),
                          !.reasons = reason,
                          !.merged = df,
                          !.ma = m ]

\* realtime_trade_signal, lines 408-431 and 448-453: the rows whose close
\* parses (dropna keeps their labels), and whether the row in front of the
\* target row is one of them (`idx - 1 in df.index`).
ParsedRows(i) ==
    LET n == Len(i.kline)
    IN  IF i.fault \in {"garbled", "short"} THEN SubSeq(i.kline, 1, n - 1)
        ELSE IF i.fault = "bad_prev" /\ n >= 2
             THEN SubSeq(i.kline, 1, n - 2) \o <<i.kline[n]>>
        ELSE i.kline

HasPrevRow(i) ==
    /\ Len(i.kline) >= 2
    /\ i.fault # "bad_prev"

\* Lines 434-453: the averages at the target row; the previous ones are
\* None without a row in front of it.
RealtimeAverages(i) ==
    LET df == ParsedRows(i)
        k == Len(df)
    IN  [ ma5 |-> RollingMean(df, k, Short),
          ma20 |-> RollingMean(df, k, Long),
          prev_ma5 |-> IF HasPrevRow(i) THEN RollingMean(df, k - 1, Short)
                       ELSE NaN,
          prev_ma20 |-> IF HasPrevRow(i) THEN RollingMean(df, k - 1, Long)
                        ELSE NaN ]

\* realtime_trade_signal, lines 456-487.
RealtimeClassify(m) ==
    IF /\ notna(m.prev_ma5) /\ notna(m.prev_ma20)
       /\ notna(m.ma5) /\ notna(m.ma20)
       /\ Le(m.prev_ma5, m.prev_ma20) /\ Gt(m.ma5, m.ma20) THEN "buy"
    ELSE IF /\ notna(m.prev_ma5) /\ notna(m.prev_ma20)
            /\ notna(m.ma5) /\ notna(m.ma20)
            /\ Ge(m.prev_ma5, m.prev_ma20) /\ Lt(m.ma5, m.ma20) THEN "sell"
    ELSE IF notna(m.ma5) /\ notna(m.ma20)
         THEN (IF Gt(m.ma5, m.ma20) THEN "bias_buy" ELSE "bias_sell")
    ELSE "hold"

\* realtime_trade_signal, lines 456-500: the texts joined into 依据.
RealtimeReasons(m, live) ==
    (IF RealtimeClassify(m) = "buy" THEN <<"golden_cross">>
     ELSE IF RealtimeClassify(m) = "sell" THEN <<"death_cross">>
     ELSE IF RealtimeClassify(m) = "bias_buy" THEN <<"ma_bullish">>
     ELSE IF RealtimeClassify(m) = "bias_sell" THEN <<"ma_bearish">>
     ELSE <<>>)
    \o (IF ~notna(m.ma20) THEN <<>>
        ELSE IF Ge(Num(live.close), m.ma20) THEN <<"above_ma20">>
        ELSE <<"below_ma20">>)
    \o (IF live.close > live.open THEN <<"stronger_than_open">>
        ELSE IF live.close < live.open THEN <<"weaker_than_open">>
        ELSE <<>>)

\* realtime_trade_signal(code), lines 389-521, without trade_date: the
\* target row is the last row that _eastmoney_fetch_kline_daily returns.
realtime_trade_signal(i) ==
    IF i.kline = <<>> \/ i.fault = "none" THEN Reply("no_data", None)
    ELSE IF ParsedRows(i) = <<>> THEN Reply("parse_failed", None)
    ELSE IF i.fault \in {"garbled", "short"}
         THEN Reply("no_valid_close", None)
    ELSE LET m == RealtimeAverages(i)
             reason == RealtimeReasons(m, i.live)
         IN  [ Reply("report", None) EXCEPT
                 !.signal = SignalAfterAnnotations(RealtimeClassify(m), reason),
                 !.reasons = reason,
                 !.merged = ParsedRows(i),
                 !.ma = m ]

\* analyze_and_suggest, lines 349-358: ma_signal.
ma_signal(m) ==
    IF Le(m.prev_ma5, m.prev_ma20) /\ Gt(m.ma5, m.ma20) THEN "golden_cross"
    ELSE IF Ge(m.prev_ma5, m.prev_ma20) /\ Lt(m.ma5, m.ma20)
         THEN "death_cross"
    ELSE IF Gt(m.ma5, m.ma20) THEN "ma_bullish"
    ELSE "ma_bearish"

\* analyze_and_suggest(stock_code), lines 325-375, on the frame that
\* _get_daily_like_data returns.
analyze_and_suggest(i) ==
    IF i.hist = <<>> THEN Reply("no_data", None)
    ELSE LET df == SortByDate(i.hist)
         IN  IF ~enough_rows(df, df)
             THEN [Reply("insufficient", None) EXCEPT !.merged = df]
             ELSE LET m == AveragesAt(df, Len(df))
                  IN  [ Reply("report", None) EXCEPT
                          !.reasons = <<ma_signal(m)>>,
                          !.merged = df,
                          !.ma = m ]


\* The three substrings of lines 154-156 that mark an error report:
\* 分析过程中出错, 未在 MySQL 中找到, 未查询到东财行情数据.
ErrorMarkers == {"analysis_error", "no_mysql_history", "no_quote_data"}

\* What the signal function returns: a text that holds one of the error
\* markers or none, and whose signal field has a value or is absent.
Reports == [marker : ErrorMarkers \cup {None}, signal : Labels \cup {None}]

\* Seconds since midnight (Beijing) at which a tick can start.
Times == {34199, 34200, 41400, 41401, 43200, 46800, 54000, 54001}

\* Lines 50-55: 09:30 <= t <= 11:30 or 13:00 <= t <= 15:00.
is_trading_time_bj(t) ==
    LET am == 34200 <= t /\ t <= 41400
        pm == 46800 <= t /\ t <= 54000
    IN  am \/ pm

\* Lines 153-157: the report is an error message.
IsErrorReport(report) == report.marker \in ErrorMarkers

\* Variant: the result of _extract_field is used as it is.
ExtractSignalNoDefault(report) == report.signal

\* Line 164: signal = _extract_field(report, signal_field) or ""
ExtractSignal(report) == IF report.signal = None THEN "" ELSE report.signal

\* Variant: no label is filtered.
should_print_unfiltered(c, signal) == TRUE

\* Lines 173-183: should_print.
should_print(c, signal) ==
    IF c.print_all_signals THEN TRUE
    ELSE IF c.use_t_signal THEN signal \in {"buy_now", "sell_now"}
    ELSE \/ signal \in {"buy", "sell"}
         \/ c.print_bias /\ signal \in {"bias_buy", "bias_sell"}

\* Variant: labels are compared by their class (bullish or not).
IsChangeByClass(lp, code, signal) ==
    LET class(l) == IF l \in {"buy", "bias_buy"} THEN "bullish" ELSE l
    IN  class(lp[code]) # class(signal)

\* Variant: the record's default is the empty label.
IsChangeDefaultEmpty(lp, code, signal) ==
    (IF lp[code] = None THEN "" ELSE lp[code]) # signal

\* Line 186: last_printed.get(code) != signal
IsChange(lp, code, signal) == lp[code] # signal

\* Variant: the new label is not stored.
RememberNothing(lp, code, signal) == lp

\* Variant: one memory shared by all codes.
RememberForAll(lp, code, signal) == [c \in DOMAIN lp |-> signal]

\* Line 187: last_printed[code] = signal
Remember(lp, code, signal) == [lp EXCEPT ![code] = signal]

\* Variant: the handler lets the exception go.
CaughtNever(exc) == FALSE

\* Lines 135, 308: `except Exception` catches what the body raises.
Caught(exc) == exc = "Exception"

\* Lines 160, 304, 313: enable_feishu and FEISHU_ENABLED
FeishuOn(c) == c.enable_feishu /\ c.FEISHU_ENABLED

\* Seconds between the `start` of line 130 and the time.time() of line 319:
\* nothing, just under interval, interval, well beyond it; -1 is a wall
\* clock that was set back during the tick.
Costs == {-1, 0, interval - 1, interval, interval + MaxOverrun}

\* Variant: the remaining time without the floor at zero.
SleepDurationUnfloored(every, cost) == every - cost

\* Line 320: max(0.0, float(interval) - cost)
SleepDuration(every, cost) ==
    IF every - cost > 0 THEN every - cost ELSE 0

\* Variant: the gate never closes.
GateAlwaysOpen(c, now) == TRUE

\* Line 133: all_day or _is_trading_time_bj(now_bj)
GateOpen(c, now) == c.all_day \/ is_trading_time_bj(now)

\* The gate was not asked for the time (all_day short-cuts line 133).
NoGate == [asked |-> FALSE, now |-> 0, open |-> TRUE]

\* No end-of-tick sleep in this tick yet.
NoNap == [taken |-> FALSE, cost |-> 0, duration |-> 0]

\* History record of one code in one tick.
NotYet == [outcome |-> "none", signal |-> None, surfaced |-> FALSE,
           info |-> 0, err |-> 0, ret |-> None]

\* Lines 129-133: a loop iteration starts; the gate decides whether the
\* codes are walked.
TickStart ==
    /\ pc = "start"
    /\ tick < MaxTicks
    /\ tick' = tick + 1
    /\ prev' = cur
    /\ cur' = [c \in Codes |-> NotYet]
    /\ \E now \in Times :
         /\ IF GateOpen(cfg, now)
            THEN pc' = "code" /\ idx' = 1
            ELSE pc' = "sleep" /\ idx' = idx
         /\ gate' = IF cfg.all_day THEN NoGate
                    ELSE [asked |-> TRUE, now |-> now,
                          open |-> GateOpen(cfg, now)]
    /\ nap' = NoNap
    /\ UNCHANGED <<engineVars, cfg, last_printed, own_label, larkVars>>

\* The for loop moves on to the next code, or to the end of the tick.
Advance ==
    /\ idx' = idx + 1
    /\ pc' = IF idx + 1 > Len(codes) THEN "sleep" ELSE "code"

\* Lines 158-162 and 309-314: the error message goes to Feishu.
SendError(code, outcome) ==
    /\ cur' = [cur EXCEPT ![code] =
                 [NotYet EXCEPT !.outcome = outcome,
                                !.err = IF FeishuOn(cfg) THEN 1 ELSE 0]]
    /\ IF FeishuOn(cfg)
       THEN /\ Invoke(<<"error", code>>, TRUE,
                      DefaultMaxRetries, DefaultRetryDelay)
            /\ pc' = "send" /\ idx' = idx
       ELSE /\ Advance
            /\ UNCHANGED larkVars

\* Lines 135-150, 308-314: the signal function raises.
ProcessRaise ==
    /\ pc = "code"
    /\ LET code == codes[idx]
       IN  IF Caught("Exception")
           THEN /\ SendError(code, "raise")
           ELSE /\ pc' = "aborted"
                /\ UNCHANGED <<idx, cur, larkVars>>
    /\ UNCHANGED <<engineVars, cfg, gate, last_printed, tick, prev, own_label,
                   nap>>

\* Variant: an error report takes the code's label out of the memory.
ProcessErrorReportForgets ==
    /\ pc = "code"
    /\ \E report \in Reports :
         /\ IsErrorReport(report)
         /\ SendError(codes[idx], "error_report")
    /\ last_printed' = [last_printed EXCEPT ![codes[idx]] = None]
    /\ UNCHANGED <<engineVars, cfg, gate, tick, prev, own_label, nap>>

\* Lines 152-162: the signal function returns an error report.
ProcessErrorReport ==
    /\ pc = "code"
    /\ \E report \in Reports :
         /\ IsErrorReport(report)
         /\ SendError(codes[idx], "error_report")
    /\ UNCHANGED <<engineVars, cfg, gate, last_printed, tick, prev, own_label,
                   nap>>

\* Lines 164-306: a report with no error marker: extraction, print filter,
\* change test, memory update and the informational message.
ProcessReport ==
    /\ pc = "code"
    /\ \E report \in Reports :
         /\ ~IsErrorReport(report)
         /\ LET code == codes[idx]
                signal == ExtractSignal(report)
                surface == should_print(cfg, signal)
                             /\ IsChange(last_printed, code, signal)
                sends == surface /\ FeishuOn(cfg)
            IN  /\ last_printed' =
                      IF surface THEN Remember(last_printed, code, signal)
                      ELSE last_printed
                /\ own_label' =
                      IF surface THEN [own_label EXCEPT ![code] = signal]
                      ELSE own_label
                /\ cur' = [cur EXCEPT ![code] =
                             [NotYet EXCEPT !.outcome = "report",
                                            !.signal = signal,
                                            !.surfaced = surface,
                                            !.info = IF sends THEN 1 ELSE 0]]
                /\ IF sends
                   THEN /\ Invoke(<<"signal", code, signal>>, FALSE,
                                  DefaultMaxRetries, DefaultRetryDelay)
                        /\ pc' = "send" /\ idx' = idx
                   ELSE /\ Advance
                        /\ UNCHANGED larkVars
    /\ UNCHANGED <<engineVars, cfg, gate, tick, prev, nap>>

\* Variant: a delivery that failed takes the label out of the memory again.
AfterSendRollsBack ==
    /\ pc = "send"
    /\ stack = <<>>
    /\ ret # None
    /\ cur' = [cur EXCEPT ![codes[idx]].ret = ret]
    /\ last_printed' =
          IF ret = "False" /\ cur[codes[idx]].info = 1
          THEN [last_printed EXCEPT ![codes[idx]] = None]
          ELSE last_printed
    /\ Advance
    /\ calls' = <<>>
    /\ ret' = None
    /\ UNCHANGED <<engineVars, cfg, gate, tick, prev, own_label, nap, stack>>

\* Variant: main follows a failed informational message with an error
\* message of its own.
AfterSendReportsFailure ==
    /\ pc = "send"
    /\ stack = <<>>
    /\ ret # None
    /\ IF ret = "False" /\ cur[codes[idx]].info = 1 /\ cur[codes[idx]].err = 0
       THEN /\ cur' = [cur EXCEPT ![codes[idx]].ret = ret,
                                  ![codes[idx]].err = 1]
            /\ Invoke(<<"error", codes[idx]>>, TRUE,
                      DefaultMaxRetries, DefaultRetryDelay)
            /\ pc' = pc /\ idx' = idx
       ELSE /\ cur' = [cur EXCEPT ![codes[idx]].ret = ret]
            /\ Advance
            /\ calls' = <<>>
            /\ ret' = None
            /\ stack' = stack
    /\ UNCHANGED <<engineVars, cfg, gate, last_printed, tick, prev, own_label,
                   nap>>

\* send_to_lark came back; main drops its result and goes on (the history
\* keeps the result with the code, the record of the call is closed).
AfterSend ==
    /\ pc = "send"
    /\ stack = <<>>
    /\ ret # None
    /\ cur' = [cur EXCEPT ![codes[idx]].ret = ret]
    /\ Advance
    /\ calls' = <<>>
    /\ ret' = None
    /\ UNCHANGED <<engineVars, cfg, gate, last_printed, tick, prev, own_label,
                   nap, stack>>

\* Lines 319-320: cost = time.time() - start, then
\* time.sleep(max(0.0, float(interval) - cost)), then the next tick.
Sleep ==
    /\ pc = "sleep"
    /\ \E cost \in Costs :
         nap' = [taken |-> TRUE, cost |-> cost,
                 duration |-> SleepDuration(interval, cost)]
    /\ pc' = "start"
    /\ UNCHANGED <<engineVars, cfg, gate, last_printed, idx, tick, cur, prev,
                   own_label,
                   larkVars>>

(***************************************************************************)
(* Specifications                                                          *)
(***************************************************************************)

\* main after line 113, send_to_lark not running.
Init ==
    /\ cfg = ShippedCfg
    /\ last_printed = [c \in Codes |-> None]
    /\ pc = "start"
    /\ idx = 1
    /\ tick = 0
    /\ cur = [c \in Codes |-> NotYet]
    /\ prev = [c \in Codes |-> NotYet]
    /\ own_label = [c \in Codes |-> None]
    /\ nap = NoNap
    /\ gate = NoGate
    /\ inp = NoInput
    /\ out = NoOutput
    /\ stack = <<>>
    /\ calls = <<>>
    /\ ret = None

Next ==
    \/ TickStart
    \/ ProcessRaise
    \/ ProcessErrorReport
    \/ ProcessReport
    \/ LarkAttempt
    \/ LarkFollowup
    \/ LarkGiveUp
    \/ LarkAfterFollowup
    \/ AfterSend
    \/ Sleep

Spec == Init /\ [][Next]_vars

\* send_to_lark on its own, called with any arguments.
NextLark ==
    \/ LarkCall
    \/ LarkAttempt
    \/ LarkFollowup
    \/ LarkGiveUp
    \/ LarkAfterFollowup

SpecLark == Init /\ [][NextLark]_vars

\* Every requests.post ends (timeout=LARK_MSG_TIMEOUT) and every time.sleep
\* ends, so a running send_to_lark keeps taking its steps.
LarkSteps == LarkAttempt \/ LarkFollowup \/ LarkGiveUp \/ LarkAfterFollowup

FairSpecLark == Init /\ [][NextLark]_vars /\ WF_vars(LarkSteps)

(***************************************************************************)
(* main with the configuration block edited: the standard signals with    *)
(* the print filter on, with and without the trading-hours gate            *)
(***************************************************************************)

Cfgs ==
    { [ShippedCfg EXCEPT !.print_all_signals = FALSE,
                         !.use_t_signal = FALSE,
                         !.all_day = a] : a \in BOOLEAN }

InitConfigs ==
    /\ cfg \in Cfgs
    /\ last_printed = [c \in Codes |-> None]
    /\ pc = "start"
    /\ idx = 1
    /\ tick = 0
    /\ cur = [c \in Codes |-> NotYet]
    /\ prev = [c \in Codes |-> NotYet]
    /\ own_label = [c \in Codes |-> None]
    /\ nap = NoNap
    /\ gate = NoGate
    /\ inp = NoInput
    /\ out = NoOutput
    /\ stack = <<>>
    /\ calls = <<>>
    /\ ret = None

SpecConfigs == InitConfigs /\ [][Next]_vars

(***************************************************************************)
(* The signal functions on their own: every input of the bounded family,   *)
(* every function called on it                                             *)
(***************************************************************************)

\* How far the live close is from the line the history follows, and how far
\* the open is from the live close.
LiveDeltas == {-6, 0, 6}
Opens == {-1, 0, 1}

\* What the quote provider hands back: usable rows, no rows, a last row
\* with too few fields, a last row whose numbers do not parse, or a row in
\* front of the last one whose close does not parse.
Faults == {"ok", "none", "short", "garbled", "bad_prev"}

\* The day of the live bar against a history of n rows (dates 2, 4 .. 2n):
\* the day before the last row, between the last two rows, the last row, or
\* later than every row.
LiveDays(n) == {d \in {2 * n - 2, 2 * n - 1, 2 * n, 2 * n + 1} : d >= 1}

\* The rows of a sorted series up to a day.
UpTo(rows, day) ==
    SubSeq(rows, 1, Cardinality({k \in 1..Len(rows) : rows[k].date <= day}))

\* One input: the persisted history, the live bar (the last row of the
\* provider's daily bars) and the provider's bars up to it.
EngineInput(n, slope, tail, day, d, o, fault) ==
    LET hist == SeriesOf(n, slope, tail)
        close == BaseClose + slope * ((day + 1) \div 2) + d
    IN  [ kind |-> "input",
          hist |-> hist,
          fault |-> fault,
          live |-> [ date |-> DateStr(day),
                     open |-> close + o,
                     close |-> close,
                     high |-> close + 2,
                     low |-> close - 2,
                     vol |-> 1000 ],
          kline |-> UpTo(MergedSeries(hist, DateStr(day), close), day) ]

InitEngine ==
    /\ cfg = ShippedCfg
    /\ last_printed = [c \in Codes |-> None]
    /\ pc = "start"
    /\ idx = 1
    /\ tick = 0
    /\ cur = [c \in Codes |-> NotYet]
    /\ prev = [c \in Codes |-> NotYet]
    /\ own_label = [c \in Codes |-> None]
    /\ nap = NoNap
    /\ gate = NoGate
    /\ \E n \in Lens, slope \in Slopes, tail \in Tails :
          \E day \in LiveDays(n) :
              \/ \E d \in LiveDeltas, o \in Opens :
                     inp = EngineInput(n, slope, tail, day, d, o, "ok")
              \/ \E fault \in Faults :
                     inp = EngineInput(n, slope, tail, day, 0, 0, fault)
    /\ out = NoOutput
    /\ stack = <<>>
    /\ calls = <<>>
    /\ ret = None

CallIntradayTradeSignal ==
    /\ inp.kind = "input"
    /\ out' = [intraday_trade_signal(inp) EXCEPT
                  !.by = "intraday_trade_signal"]
    /\ UNCHANGED <<inp, loopVars, larkVars>>

CallRealtimeTradeSignal ==
    /\ inp.kind = "input"
    /\ out' = [realtime_trade_signal(inp) EXCEPT
                  !.by = "realtime_trade_signal"]
    /\ UNCHANGED <<inp, loopVars, larkVars>>

CallAnalyzeAndSuggest ==
    /\ inp.kind = "input"
    /\ out' = [analyze_and_suggest(inp) EXCEPT !.by = "analyze_and_suggest"]
    /\ UNCHANGED <<inp, loopVars, larkVars>>

NextEngine ==
    \/ CallIntradayTradeSignal
    \/ CallRealtimeTradeSignal
    \/ CallAnalyzeAndSuggest

SpecEngine == InitEngine /\ [][NextEngine]_vars

(***************************************************************************)
(* Claims about the signal memory of main                                  *)
(***************************************************************************)

\* A step in which main takes a report without error marker for codes[idx]
\* through extraction, filter and change test.
ReportStep == pc = "code" /\ cur'[codes[idx]].outcome = "report"

\* C1: for a code and a newly extracted label, the signal is surfaced (the
\* informational message is built and handed to send_to_lark) if and only
\* if the label differs, as a string, from last_printed[code]; when it is
\* surfaced last_printed[code] becomes the new label, otherwise
\* last_printed is unchanged.
C1_SurfacedIffLabelDiffers ==
    [][ ReportStep =>
          LET code == codes[idx]
              signal == cur'[code].signal
              differs == last_printed[code] # signal
          IN  /\ cur'[code].surfaced <=> differs
              /\ cur'[code].info = 1 <=> differs
              /\ differs =>
                   /\ last_printed' = [last_printed EXCEPT ![code] = signal]
                   /\ pc' = "send"
                   /\ Len(stack') = 1
                   /\ stack'[1].message = <<"signal", code, signal>>
                   /\ ~stack'[1].is_error
              /\ ~differs =>
                   /\ last_printed' = last_printed
                   /\ stack' = <<>>
      ]_vars

\* C1 witness: a code whose last surfaced label was "buy" produced
\* "bias_buy", a label of the same class, and it was surfaced.
C1_Witness ==
    \E c \in Codes :
        /\ prev[c].outcome = "report" /\ prev[c].signal = "buy"
        /\ cur[c].outcome = "report" /\ cur[c].signal = "bias_buy"
        /\ cur[c].surfaced /\ cur[c].info = 1
        /\ last_printed[c] = "bias_buy"

\* C2: of two consecutive ticks that produce the same label for a code, the
\* second one sends no informational message, so that the pair carries
\* exactly one when the first tick was the label's first occurrence; a tick
\* that produces a label different from the previous tick's sends one.
C2_SuppressedThenTriggeredAgain ==
    \A c \in Codes :
        (prev[c].outcome = "report" /\ cur[c].outcome = "report") =>
            IF cur[c].signal = prev[c].signal
            THEN /\ cur[c].info = 0
                 /\ prev[c].info + cur[c].info
                      = (IF prev[c].surfaced THEN 1 ELSE 0)
            ELSE cur[c].info = 1

\* C2 witness: third tick; the code's label "buy" was suppressed in the
\* second tick (it had been surfaced in the first) and the different label
\* "bias_buy" of the third tick is notified.
C2_Witness ==
    \E c \in Codes :
        /\ tick = 3
        /\ prev[c].outcome = "report" /\ prev[c].signal = "buy"
        /\ ~prev[c].surfaced /\ prev[c].info = 0
        /\ cur[c].outcome = "report" /\ cur[c].signal = "bias_buy"
        /\ cur[c].info = 1

\* C3: when last_printed holds no record for a code, the signal computed
\* for it is surfaced and recorded, whatever its label (the empty label of
\* an extraction miss included).
C3_FirstObservationSurfaced ==
    [][ (ReportStep /\ last_printed[codes[idx]] = None) =>
          LET code == codes[idx]
          IN  /\ cur'[code].surfaced
              /\ cur'[code].info = 1
              /\ last_printed'[code] = cur'[code].signal
              /\ last_printed'[code] # None
      ]_vars

\* C3 witness: a code whose first tick failed gets its first signal in the
\* second tick, with an empty label, and it is surfaced.
C3_Witness ==
    \E c \in Codes :
        /\ tick = 2
        /\ prev[c].outcome = "error_report"
        /\ cur[c].outcome = "report" /\ cur[c].signal = ""
        /\ cur[c].surfaced /\ cur[c].info = 1
        /\ last_printed[c] = ""

\* C4: no step changes last_printed[B] except the processing of B itself
\* (surfacing, suppressing or failing on another code A leaves it alone),
\* and whether B's signal is surfaced depends only on the label that B's
\* own processing last surfaced.
C4_InstrumentsIndependent ==
    [][ /\ \A b \in Codes :
             (pc # "code" \/ b # codes[idx]) =>
                 last_printed'[b] = last_printed[b]
        /\ ReportStep =>
             LET b == codes[idx]
             IN  cur'[b].surfaced <=> cur'[b].signal # own_label[b]
      ]_vars

\* C4 witness: in one tick the first code failed and the second code's
\* label, equal to its own last label, was suppressed although the first
\* code's memory holds another label.
C4_Witness ==
    /\ pc = "sleep"
    /\ cur[codes[1]].outcome = "raise"
    /\ last_printed[codes[1]] = "buy"
    /\ cur[codes[2]].outcome = "report" /\ cur[codes[2]].signal = "bias_buy"
    /\ ~cur[codes[2]].surfaced
    /\ last_printed[codes[2]] = "bias_buy"

(***************************************************************************)
(* Claims about send_to_lark                                               *)
(***************************************************************************)

\* C5: a call with is_error=True whose attempts keep failing makes
\* max_retries + 1 attempts with a pause of retry_delay between consecutive
\* attempts, and no attempt follows a successful one.
C5_ErrorMessagesRetried ==
    \A k \in 1..Len(calls) :
        calls[k].is_error =>
            /\ calls[k].after_accept = 0
            /\ calls[k].ret = "False" =>
                 /\ calls[k].attempts = calls[k].max_retries + 1
                 /\ calls[k].sleeps = calls[k].max_retries
                 /\ calls[k].slept
                      = calls[k].max_retries * calls[k].retry_delay

\* C6: a call with is_error=False makes exactly one delivery attempt of its
\* message, whatever max_retries is, even when that attempt fails.
C6_InformationalSingleAttempt ==
    \A k \in 1..Len(calls) :
        ~calls[k].is_error =>
            /\ calls[k].attempts <= 1
            /\ calls[k].sleeps = 0
            /\ calls[k].ret # None => calls[k].attempts = 1

\* C7: when the delivery of an informational message has failed for good,
\* send_to_lark has issued exactly one further call, for the follow-up
\* message and with is_error=True; that call makes a single attempt with no
\* pause, and the informational call returns False.
C7_SingleFollowupOnInformationalFailure ==
    /\ (calls # <<>> /\ ~calls[1].is_error /\ calls[1].ret = "False") =>
          /\ Len(calls) = 2
          /\ calls[2].message = FollowupMessage(calls[1].message)
          /\ calls[2].is_error
          /\ calls[2].attempts = 1
          /\ calls[2].sleeps = 0
          /\ calls[2].ret # None
          /\ ~calls[1].accepted
    /\ Len(calls) >= 2 =>
          /\ ~calls[1].is_error
          /\ calls[1].ret # "True"
          /\ calls[2].attempts <= 1
          /\ calls[2].sleeps = 0

\* C7 witness: an informational call with max_retries = 3 came back False
\* after its follow-up message failed as well.
C7_Witness ==
    /\ stack = <<>>
    /\ ret = "False"
    /\ Len(calls) = 2
    /\ ~calls[1].is_error /\ calls[1].max_retries = 3
    /\ calls[1].ret = "False"
    /\ calls[2].ret = "False" /\ calls[2].attempts = 1

\* C8: a failed call with is_error=True issues no further call, so a
\* top-level call causes at most two invocations of send_to_lark, nested at
\* most one deep, and every call that was started comes back with True or
\* False, also when the sink never accepts anything.
C8_NoSelfNotificationLoop ==
    /\ [](/\ Len(stack) <= 2
          /\ Len(calls) <= 2
          /\ \A k \in 1..Len(calls) :
               /\ calls[k].depth <= 2
               /\ calls[k].is_error => calls[k].depth = Len(calls)
               /\ (calls[k].is_error /\ calls[k].ret = "False") =>
                      Len(calls) = k
          /\ (stack = <<>> /\ calls # <<>>) => ret \in {"True", "False"})
    /\ (stack # <<>>) ~> (stack = <<>> /\ ret \in {"True", "False"})

\* C8 witness: the sink refused every attempt of an informational message
\* and of its follow-up; two invocations, and the call returned False.
C8_Witness ==
    /\ stack = <<>>
    /\ ret = "False"
    /\ Len(calls) = 2
    /\ calls[1].attempts = calls[1].max_retries + 1
    /\ calls[1].max_retries >= 1
    /\ ~calls[1].accepted /\ ~calls[2].accepted
    /\ calls[2].is_error /\ calls[2].ret = "False"

\* C9: a call returns True if and only if one of its attempts received HTTP
\* 200 with StatusCode 0; every other attempt counts as failed, and every
\* finished call hands True or False to its caller.
C9_TrueIffSinkAccepted ==
    /\ \A k \in 1..Len(calls) :
         /\ calls[k].ret \in {None, "True", "False"}
         /\ calls[k].ret = "True" <=> calls[k].accepted
         /\ calls[k].ret = "False" => calls[k].attempts >= 1
    /\ (stack = <<>> /\ calls # <<>>) =>
         /\ ret \in {"True", "False"}
         /\ ret = calls[1].ret

\* C9 witness: an error-class call got HTTP 200 without StatusCode 0 on its
\* only attempt and returned False.
C9_Witness ==
    /\ stack = <<>>
    /\ Len(calls) = 1
    /\ calls[1].is_error
    /\ calls[1].rejected_200
    /\ calls[1].attempts = 1
    /\ ret = "False"

(***************************************************************************)
(* Claims about the loop of main                                           *)
(***************************************************************************)

\* C10: no failure on one code (the signal function raising or returning
\* an error report, an extraction miss, a notification that fails) leaves
\* the while-loop: the codes before the current one have all been
\* evaluated, and at the end of a tick every code has been.
C10_FailuresDoNotStopTheLoop ==
    /\ pc \in {"start", "code", "send", "sleep"}
    /\ pc \in {"code", "send"} =>
         \A k \in 1..Len(codes) : k < idx => cur[codes[k]].outcome # "none"
    /\ pc = "send" => cur[codes[idx]].outcome # "none"
    /\ (pc = "sleep" /\ cfg.all_day) =>
         \A c \in Codes : cur[c].outcome # "none"

\* C10 witness: end of the second tick; in the first tick the first code
\* raised and its error message was not delivered, yet the second code was
\* evaluated; in the second tick the first code had an extraction miss
\* whose notification failed and the second code an error report.
C10_Witness ==
    /\ tick = 2
    /\ pc = "sleep"
    /\ prev[codes[1]].outcome = "raise" /\ prev[codes[1]].ret = "False"
    /\ prev[codes[2]].outcome = "report"
    /\ cur[codes[1]].outcome = "report" /\ cur[codes[1]].signal = ""
    /\ cur[codes[1]].ret = "False"
    /\ cur[codes[2]].outcome = "error_report"

\* C11: every failure on a code in a tick (the signal function raising,
\* an error report, or a report from which no signal can be extracted, as
\* the one for fewer than 20 merged rows) ends in one error-class message
\* for that code and in no informational message.
C11_FailuresBecomeErrorMessages ==
    \A c \in Codes :
        (\/ cur[c].outcome \in {"raise", "error_report"}
         \/ cur[c].outcome = "report" /\ cur[c].signal = "") =>
            /\ cur[c].err = 1
            /\ cur[c].info = 0

\* C12: the end-of-tick sleep lasts max(0, interval - cost): never a
\* negative time, nothing when the tick took interval seconds or more, and
\* otherwise what is left of interval.
C12_SleepIsRestOfInterval ==
    nap.taken =>
        /\ nap.duration >= 0
        /\ nap.cost >= interval => nap.duration = 0
        /\ nap.cost < interval => nap.duration = interval - nap.cost

\* C12 witness: a tick that overran interval was followed by no sleep.
C12_Witness ==
    /\ pc = "start"
    /\ nap.taken
    /\ nap.cost > interval
    /\ nap.duration = 0
    /\ \A c \in Codes : cur[c].outcome # "none"

(***************************************************************************)
(* _extract_field on its own.  A report is a sequence of tokens: "sp" a    *)
(* blank, "nl" a line break, "dash" the list marker, "icon" one of the     *)
(* glyphs of pattern2, "x" and "y" other text, "LA" the field name in      *)
(* emphasis with its colon, "LB" the bare field name with its colon, "EM"  *)
(* another name in emphasis with its colon.                                *)
(***************************************************************************)

MaxLines == 3

Min(S) == CHOOSE a \in S : \A b \in S : a <= b
Max(S) == CHOOSE a \in S : \A b \in S : a >= b

\* Whitespace of the patterns: blanks and line breaks alike.
IsSpace(t) == t \in {"sp", "nl"}

\* The last position of the line that position a is in.
LineEnd(s, a) ==
    Min({e \in a..(Len(s) + 1) : e = Len(s) + 1 \/ s[e] = "nl"}) - 1

\* The tail of both patterns from position q, the one behind the colon: the
\* greedy whitespace run takes blanks and line breaks alike up to the first
\* other character, and the group is the rest of that line; at the end of
\* the text the run gives back up to its last blank, which is the group.
ValueGroup(s, q) ==
    LET e == Min({k \in q..(Len(s) + 1) : k = Len(s) + 1 \/ ~IsSpace(s[k])})
        back == {r \in q..Len(s) : s[r] # "nl"}
    IN  IF e <= Len(s)
        THEN [ok |-> TRUE, group |-> SubSeq(s, e, LineEnd(s, e))]
        ELSE IF back # {} THEN [ok |-> TRUE, group |-> <<s[Max(back)]>>]
        ELSE [ok |-> FALSE, group |-> <<>>]

\* str.strip()
Strip(g) ==
    LET keep == {k \in 1..Len(g) : ~IsSpace(g[k])}
    IN  IF keep = {} THEN <<>> ELSE SubSeq(g, Min(keep), Max(keep))

\* value.startswith("- **")
StartsWithListedLabel(v) ==
    /\ Len(v) >= 3
    /\ v[1] = "dash" /\ v[2] = "sp" /\ v[3] \in {"EM", "LA"}

\* re.search(pattern1, report): the leftmost emphasised name with a group.
Search1(s) ==
    LET hits == {p \in 1..Len(s) : s[p] = "LA" /\ ValueGroup(s, p + 1).ok}
    IN  IF hits = {} THEN [ok |-> FALSE, group |-> <<>>]
        ELSE ValueGroup(s, Min(hits) + 1)

\* What pattern2 wants in front of the bare name: the start of the text or
\* of a line, a blank, the list marker or a glyph.
PlainLabelAt(s, p) ==
    /\ s[p] = "LB"
    /\ p = 1 \/ s[p - 1] \in {"sp", "nl", "dash", "icon"}

\* re.search(pattern2, report, re.MULTILINE)
Search2(s) ==
    LET hits == {p \in 1..Len(s) : PlainLabelAt(s, p) /\ ValueGroup(s, p + 1).ok}
    IN  IF hits = {} THEN [ok |-> FALSE, group |-> <<>>]
        ELSE ValueGroup(s, Min(hits) + 1)

Absent == [found |-> FALSE, value |-> <<>>]
Found(v) == [found |-> TRUE, value |-> v]

\* _extract_field(report, field_name), lines 58-81.
extract_field(s) ==
    LET m1 == Search1(s)
        m2 == Search2(s)
    IN  IF /\ m1.ok
           /\ Strip(m1.group) # <<>>
           /\ ~StartsWithListedLabel(Strip(m1.group))
        THEN Found(Strip(m1.group))
        ELSE IF m2.ok /\ Strip(m2.group) # <<>>
        THEN Found(Strip(m2.group))
        ELSE Absent

\* The lines a report is put together from: the field in emphasis with a
\* value, with a blank value, with nothing behind the colon, and with a
\* value that is itself a listed label; another field in emphasis, listed
\* and not listed; an indented line of text; the bare field behind a glyph
\* with a value, bare with a blank value, bare with a listed label as value,
\* and glued to text in front of it; an empty line.
LineShapes ==
    { <<"dash", "sp", "LA", "sp", "x">>,
      <<"dash", "sp", "LA", "sp">>,
      <<"dash", "sp", "LA">>,
      <<"dash", "sp", "LA", "sp", "dash", "sp", "EM", "sp", "y">>,
      <<"dash", "sp", "EM", "sp", "y">>,
      <<"EM", "sp", "y">>,
      <<"sp", "sp", "y">>,
      <<"icon", "sp", "LB", "sp", "x">>,
      <<"LB", "sp">>,
      <<"LB", "sp", "dash", "sp", "EM", "sp", "y">>,
      <<"y", "LB", "sp", "x">>,
      <<>> }

RECURSIVE JoinLines(_)
\* The text of the lines, a line break between two of them.
JoinLines(lines) ==
    IF lines = <<>> THEN <<>>
    ELSE IF Len(lines) = 1 THEN lines[1]
    ELSE lines[1] \o <<"nl">> \o JoinLines(Tail(lines))

ReportInput(lines) ==
    [kind |-> "report", lines |-> lines, text |-> JoinLines(lines)]

InitExtract ==
    /\ cfg = ShippedCfg
    /\ last_printed = [c \in Codes |-> None]
    /\ pc = "start"
    /\ idx = 1
    /\ tick = 0
    /\ cur = [c \in Codes |-> NotYet]
    /\ prev = [c \in Codes |-> NotYet]
    /\ own_label = [c \in Codes |-> None]
    /\ nap = NoNap
    /\ gate = NoGate
    /\ \E n \in 1..MaxLines : \E lines \in [1..n -> LineShapes] :
          inp = ReportInput(lines)
    /\ out = NoOutput
    /\ stack = <<>>
    /\ calls = <<>>
    /\ ret = None

CallExtractField ==
    /\ inp.kind = "report"
    /\ out.kind = "none"
    /\ out' = [ kind |-> "field",
                found |-> extract_field(inp.text).found,
                value |-> extract_field(inp.text).value ]
    /\ UNCHANGED <<inp, loopVars, larkVars>>

NextExtract == CallExtractField

SpecExtract == InitExtract /\ [][NextExtract]_vars

(***************************************************************************)
(* Claims about the signal functions                                       *)
(***************************************************************************)

\* The four values a classification gives to the signal field, and the four
\* values of ma_signal.
ComputedSignals == {"buy", "sell", "bias_buy", "bias_sell"}
ComputedStates == {"golden_cross", "death_cross", "ma_bullish", "ma_bearish"}

\* The call of intraday_trade_signal got as far as the merge.
IntradayMerged ==
    /\ out.kind = "reply"
    /\ out.by = "intraday_trade_signal"
    /\ inp.hist # <<>>
    /\ inp.fault \in {"ok", "bad_prev"}

\* The call of analyze_and_suggest got a frame with rows.
AnalyzeLoaded ==
    /\ out.kind = "reply"
    /\ out.by = "analyze_and_suggest"
    /\ inp.hist # <<>>

\* The series the live bar of the input is merged into.
InputMerged == MergedSeries(inp.hist, inp.live.date, inp.live.close)

\* C13: whenever the merged series (intraday_trade_signal) or the loaded
\* frame (analyze_and_suggest) has fewer than 20 rows, the function returns
\* the insufficient-data text, and its result carries none of buy, sell,
\* bias-buy, bias-sell and no moving-average state.
C13_InsufficientData ==
    /\ (IntradayMerged /\ Len(InputMerged) < MinRows) =>
           /\ out.text = "insufficient"
           /\ out.signal = None
           /\ out.reasons = <<>>
    /\ (AnalyzeLoaded /\ Len(inp.hist) < MinRows) =>
           /\ out.text = "insufficient"
           /\ out.signal = None
           /\ out.reasons = <<>>
    /\ (/\ out.kind = "reply"
        /\ out.by \in {"intraday_trade_signal", "analyze_and_suggest"}
        /\ Len(out.merged) < MinRows) =>
           /\ out.signal \notin ComputedSignals
           /\ \A k \in 1..Len(out.reasons) : out.reasons[k] \notin ComputedStates

\* A history of 19 rows whose last close the live bar replaces: 19 merged
\* rows, and intraday_trade_signal answers with the insufficient-data text.
C13_Witness ==
    /\ IntradayMerged
    /\ Len(inp.hist) = MinRows - 1
    /\ Len(InputMerged) = MinRows - 1
    /\ out.text = "insufficient"
    /\ out.signal = None

\* A call of intraday_trade_signal or realtime_trade_signal that got as far
\* as the classification.
Classified ==
    /\ out.kind = "reply"
    /\ out.by \in {"intraday_trade_signal", "realtime_trade_signal"}
    /\ out.text = "report"

\* All four averages of the result are numbers.
AllDefined ==
    /\ notna(out.ma.ma5) /\ notna(out.ma.ma20)
    /\ notna(out.ma.prev_ma5) /\ notna(out.ma.prev_ma20)

\* C14: with four defined averages, prev_short <= prev_long (equality
\* included) and short > long, the signal is buy, whatever the trend branch
\* would have said.
C14_GoldenCrossIsBuy ==
    (/\ Classified
     /\ AllDefined
     /\ out.ma.prev_ma5.num <= out.ma.prev_ma20.num
     /\ out.ma.ma5.num > out.ma.ma20.num) =>
        /\ out.signal = "buy"
        /\ out.reasons[1] = "golden_cross"

\* intraday_trade_signal on a flat history whose averages were equal on the
\* previous row and whose live bar lifts the short one: buy.
C14_Witness ==
    /\ Classified
    /\ out.by = "intraday_trade_signal"
    /\ AllDefined
    /\ out.ma.prev_ma5.num = out.ma.prev_ma20.num
    /\ out.ma.ma5.num > out.ma.ma20.num
    /\ out.signal = "buy"

\* C15: with four defined averages, prev_short >= prev_long and
\* short < long, the signal is sell and not the trend label; the condition
\* of buy and the condition of sell never hold together.
C15_DeathCrossIsSell ==
    (Classified /\ AllDefined) =>
        LET buy_cond == /\ out.ma.prev_ma5.num <= out.ma.prev_ma20.num
                        /\ out.ma.ma5.num > out.ma.ma20.num
            sell_cond == /\ out.ma.prev_ma5.num >= out.ma.prev_ma20.num
                         /\ out.ma.ma5.num < out.ma.ma20.num
        IN  /\ ~(buy_cond /\ sell_cond)
            /\ sell_cond =>
                   /\ out.signal = "sell"
                   /\ out.reasons[1] = "death_cross"

\* realtime_trade_signal on bars whose short average was above the long one
\* on the previous row and is below it now: sell.
C15_Witness ==
    /\ Classified
    /\ out.by = "realtime_trade_signal"
    /\ AllDefined
    /\ out.ma.prev_ma5.num > out.ma.prev_ma20.num
    /\ out.ma.ma5.num < out.ma.ma20.num
    /\ out.signal = "sell"

\* The closes of a series rise by the same positive step from row to row.
SteadilyRising(rows) ==
    /\ Len(rows) >= 2
    /\ rows[2].close > rows[1].close
    /\ \A k \in 1..(Len(rows) - 1) :
           rows[k + 1].close - rows[k].close = rows[2].close - rows[1].close

\* C16: with both current averages defined and neither cross condition
\* true, the signal is bias-buy when short > long and bias-sell otherwise
\* (equal averages included); a steadily rising series of 25 closes with the
\* live close above both averages gives bias-buy.
C16_TrendFallback ==
    Classified =>
        LET m == out.ma
            buy_cond == Le(m.prev_ma5, m.prev_ma20) /\ Gt(m.ma5, m.ma20)
            sell_cond == Ge(m.prev_ma5, m.prev_ma20) /\ Lt(m.ma5, m.ma20)
        IN  /\ (notna(m.ma5) /\ notna(m.ma20) /\ ~buy_cond /\ ~sell_cond) =>
                   /\ m.ma5.num > m.ma20.num => out.signal = "bias_buy"
                   /\ m.ma5.num <= m.ma20.num => out.signal = "bias_sell"
            /\ (/\ Len(out.merged) = 25
                /\ SteadilyRising(out.merged)
                /\ Gt(Num(inp.live.close), m.ma5)
                /\ Gt(Num(inp.live.close), m.ma20)) =>
                   out.signal = "bias_buy"

\* intraday_trade_signal on 25 closes rising by one a day, the live close
\* being the last of them: bias-buy.
C16_Witness ==
    /\ Classified
    /\ out.by = "intraday_trade_signal"
    /\ Len(out.merged) = 25
    /\ SteadilyRising(out.merged)
    /\ out.merged[25].close = inp.live.close
    /\ Gt(Num(inp.live.close), out.ma.ma5)
    /\ Gt(Num(inp.live.close), out.ma.ma20)
    /\ out.signal = "bias_buy"

\* C17 as stated: whenever one of the averages a comparison needs is
\* undefined, the signal is neither buy nor sell, nothing is raised, and the
\* result is the neutral classification (hold).
C17_UndefinedMeansHold ==
    (Classified /\ ~AllDefined) =>
        /\ out.signal \notin {"buy", "sell"}
        /\ out.marker # "analysis_error"
        /\ out.signal = "hold"

\* C17, amended: whenever one of the four averages is undefined, the signal
\* is neither buy nor sell and nothing is raised; the signal is hold exactly
\* when a current average is undefined, and with both current averages
\* defined (only a previous one missing, as with exactly 20 rows) it is the
\* trend label: bias-buy if short > long, bias-sell otherwise.
C17_UndefinedNeverCross ==
    /\ (Classified /\ ~AllDefined) =>
           /\ out.signal \notin {"buy", "sell"}
           /\ out.marker # "analysis_error"
           /\ (notna(out.ma.ma5) /\ notna(out.ma.ma20)) =>
                  out.signal = IF out.ma.ma5.num > out.ma.ma20.num
                               THEN "bias_buy" ELSE "bias_sell"
           /\ ~(notna(out.ma.ma5) /\ notna(out.ma.ma20)) =>
                  out.signal = "hold"
    /\ (/\ out.kind = "reply"
        /\ out.by \in {"intraday_trade_signal", "realtime_trade_signal"}
        /\ inp.fault \in {"ok", "bad_prev"}) =>
           out.marker # "analysis_error"

\* intraday_trade_signal on exactly 20 merged rows: the previous long
\* average is undefined and the report says bias-buy.
C17_Witness ==
    /\ Classified
    /\ out.by = "intraday_trade_signal"
    /\ Len(out.merged) = MinRows
    /\ ~notna(out.ma.prev_ma20)
    /\ notna(out.ma.ma20)
    /\ out.signal = "bias_buy"

\* The input with another open, high, low and volume of the live bar.
WithLive(i, open, high, low, vol) ==
    [i EXCEPT !.live.open = open, !.live.high = high,
              !.live.low = low, !.live.vol = vol]

\* C18: the signal of a report is the classification of its four averages
\* and of nothing else: the same call with another open, high, low or volume
\* of the live bar has the same averages and the same signal, and wherever
\* the price stands against the long average the signal is the one the
\* averages give; only the reasons differ.
C18_AnnotationsAreCosmetic ==
    Classified =>
        /\ out.by = "intraday_trade_signal" =>
               /\ out.signal = IntradayClassify(out.ma)
               /\ \A o \in Opens, h \in {2, 5}, v \in {0, 1000} :
                      LET alt == intraday_trade_signal(
                                     WithLive(inp, inp.live.close + o,
                                              inp.live.close + h,
                                              inp.live.close - h, v))
                      IN  /\ alt.ma = out.ma
                          /\ alt.signal = out.signal
        /\ out.by = "realtime_trade_signal" =>
               /\ out.signal = RealtimeClassify(out.ma)
               /\ \A o \in Opens, h \in {2, 5}, v \in {0, 1000} :
                      LET alt == realtime_trade_signal(
                                     WithLive(inp, inp.live.close + o,
                                              inp.live.close + h,
                                              inp.live.close - h, v))
                      IN  /\ alt.ma = out.ma
                          /\ alt.signal = out.signal

\* intraday_trade_signal reports a bullish signal although the live close
\* is below the long average and below the open; with a lower open the
\* reasons differ and the signal is the same.
C18_Witness ==
    /\ Classified
    /\ out.by = "intraday_trade_signal"
    /\ out.signal \in {"buy", "bias_buy"}
    /\ \E k \in 1..Len(out.reasons) : out.reasons[k] = "below_ma20"
    /\ \E k \in 1..Len(out.reasons) : out.reasons[k] = "weaker_than_open"
    /\ LET alt == intraday_trade_signal(
                       WithLive(inp, inp.live.close - 1, inp.live.high,
                                inp.live.low, inp.live.vol))
       IN  /\ alt.reasons # out.reasons
           /\ alt.signal = out.signal

\* The rows of the history whose date is the date of the live bar.
SameDay == {k \in 1..Len(inp.hist) : DateStr(inp.hist[k].date) = inp.live.date}

\* C19: when the date of the live bar is a persisted date, the merged series
\* has the length and the dates of the persisted one and only the close of
\* that date differs, being the live close; otherwise the merged series is
\* the persisted one with exactly one more entry (live date, live close),
\* every other entry unchanged.
C19_MergeReplacesOrAdds ==
    IntradayMerged =>
        LET h == inp.hist
            m == out.merged
            new == [date |-> ToDatetime(inp.live.date),
                    close |-> inp.live.close]
        IN  /\ SameDay # {} =>
                   /\ Len(m) = Len(h)
                   /\ \A k \in 1..Len(h) :
                          /\ m[k].date = h[k].date
                          /\ k \in SameDay => m[k].close = inp.live.close
                          /\ k \notin SameDay => m[k].close = h[k].close
            /\ SameDay = {} =>
                   /\ Len(m) = Len(h) + 1
                   /\ \E p \in 1..Len(m) :
                          /\ m[p] = new
                          /\ SubSeq(m, 1, p - 1) \o SubSeq(m, p + 1, Len(m)) = h

\* The live bar is of the day of the row before the last one and has
\* another close: that close alone is replaced.
C19_Witness ==
    /\ IntradayMerged
    /\ Len(inp.hist) >= MinRows
    /\ SameDay = {Len(inp.hist) - 1}
    /\ inp.hist[Len(inp.hist) - 1].close # inp.live.close
    /\ Len(out.merged) = Len(inp.hist)
    /\ out.merged[Len(inp.hist) - 1].close = inp.live.close
    /\ out.merged[Len(inp.hist)] = inp.hist[Len(inp.hist)]

DistinctDates(rows) ==
    \A j, k \in 1..Len(rows) : rows[j].date = rows[k].date => j = k

\* C21: for a persisted series with distinct dates, the series the averages
\* are computed on has strictly increasing dates, whether the live bar is of
\* the last persisted day, of a later day or of an earlier one.
C21_MergedDatesIncrease ==
    (IntradayMerged /\ DistinctDates(inp.hist)) =>
        \A k \in 1..(Len(out.merged) - 1) :
            out.merged[k].date < out.merged[k + 1].date

\* The live bar is of a day that is not persisted and lies before the last
\* persisted day: its row is sorted in front of the last row.
C21_Witness ==
    /\ IntradayMerged
    /\ DistinctDates(inp.hist)
    /\ Len(inp.hist) >= MinRows
    /\ SameDay = {}
    /\ ToDatetime(inp.live.date) < inp.hist[Len(inp.hist)].date
    /\ Len(out.merged) = Len(inp.hist) + 1
    /\ out.merged[Len(inp.hist)].date = ToDatetime(inp.live.date)
    /\ out.merged[Len(inp.hist) + 1] = inp.hist[Len(inp.hist)]

\* C22: on an empty persisted series intraday_trade_signal returns the
\* no-history text, which its caller recognises by its marker; nothing is
\* raised, no signal and no average is computed and the live bar is not
\* merged, whatever the quote provider would have handed back.
C22_EmptyHistory ==
    (/\ out.kind = "reply"
     /\ out.by = "intraday_trade_signal"
     /\ inp.hist = <<>>) =>
        /\ out.text = "no_history"
        /\ out.marker = "no_mysql_history"
        /\ out.signal = None
        /\ out.reasons = <<>>
        /\ out.merged = <<>>
        /\ out.ma = NoAverages

\* An empty history together with a quote whose numbers would not parse:
\* the answer is the no-history text, not the text of a caught exception.
C22_Witness ==
    /\ out.kind = "reply"
    /\ out.by = "intraday_trade_signal"
    /\ inp.hist = <<>>
    /\ inp.fault = "garbled"
    /\ out.text = "no_history"
    /\ out.marker = "no_mysql_history"
    /\ out.merged = <<>>

(***************************************************************************)
(* Claims about _extract_field                                             *)
(***************************************************************************)

\* The field name stands at position p, in emphasis or bare.
LabelAt(s, p) == s[p] = "LA" \/ PlainLabelAt(s, p)

\* What stands behind the colon at position p on the line of that colon.
OwnLineValue(s, p) == Strip(SubSeq(s, p + 1, LineEnd(s, p + 1)))

\* C23: a value that _extract_field returns stands behind the field name on
\* the line of the field name; when every occurrence of the field name has
\* only blanks behind it on its line, the result is absent, whatever the
\* following lines hold.
C23_NoTextFromFollowingLine ==
    out.kind = "field" =>
        LET s == inp.text
            at == {p \in 1..Len(s) : LabelAt(s, p)}
        IN  /\ out.found => \E p \in at : out.value = OwnLineValue(s, p)
            /\ (at # {} /\ \A p \in at : OwnLineValue(s, p) = <<>>) =>
                   ~out.found

\* The value format A gives and the value format B gives, stripped.
ValueA(s) == Strip(Search1(s).group)
ValueB(s) == Strip(Search2(s).group)

\* A value that is not empty and does not begin like a listed label.
Qualifies(v) == v # <<>> /\ ~StartsWithListedLabel(v)

\* C24: the result is the value of format A when that value qualifies,
\* else the value of format B when that one qualifies, else absent.
C24_FirstQualifyingForm ==
    out.kind = "field" =>
        LET s == inp.text
        IN  IF Search1(s).ok /\ Qualifies(ValueA(s))
            THEN out = [kind |-> "field", found |-> TRUE, value |-> ValueA(s)]
            ELSE IF Search2(s).ok /\ Qualifies(ValueB(s))
            THEN out = [kind |-> "field", found |-> TRUE, value |-> ValueB(s)]
            ELSE ~out.found

(***************************************************************************)
(* Further claims about main                                               *)
(***************************************************************************)

\* C25: a report in which the signal field is not found is processed like
\* any other report: the label is the empty text and never the None of
\* _extract_field, nothing is raised and no error message is sent for it.
C25_ExtractionMissNotFatal ==
    \A c \in Codes :
        cur[c].outcome = "report" =>
            /\ cur[c].signal \in Labels \cup {""}
            /\ cur[c].err = 0

\* The report of the first code had no signal field: its label is the
\* empty text, and the loop went on to the second code and took its report.
C25_Witness ==
    /\ cur[codes[1]].outcome = "report"
    /\ cur[codes[1]].signal = ""
    /\ cur[codes[2]].outcome = "report"
    /\ cur[codes[2]].signal \in Labels

\* The gate of the running tick is closed: gating is on and the time read
\* at the start of the tick is outside both windows.
GateClosed == gate.asked /\ ~gate.open

\* C26, the states: with gating on, the gate is open exactly from 09:30 to
\* 11:30 and from 13:00 to 15:00, bounds included; in a tick with a closed
\* gate no code is evaluated and send_to_lark is not called, and the tick
\* ends with its sleep; in a tick with an open gate (or without gating) the
\* codes are evaluated one after the other in the order of the list, all of
\* them by the end of the tick.
C26_GateStates ==
    /\ gate.asked =>
           (gate.open <=>
               \/ 34200 <= gate.now /\ gate.now <= 41400
               \/ 46800 <= gate.now /\ gate.now <= 54000)
    /\ ~cfg.all_day => (tick > 0 => gate.asked)
    /\ GateClosed =>
           /\ \A c \in Codes : cur[c] = NotYet
           /\ stack = <<>> /\ calls = <<>>
           /\ pc \in {"sleep", "start"}
           /\ pc = "start" => nap.taken
    /\ (tick > 0 /\ ~GateClosed) =>
           /\ pc \in {"code", "send"} =>
                  \A k \in 1..Len(codes) :
                      (k < idx => cur[codes[k]].outcome # "none")
                      /\ (k > idx => cur[codes[k]].outcome = "none")
           /\ pc \in {"sleep", "start"} =>
                  \A c \in Codes : cur[c].outcome # "none"

\* C26: the states above, and no step that ends in a tick with a closed
\* gate changes last_printed.
C26_TradingHoursGate ==
    /\ []C26_GateStates
    /\ [][(gate'.asked /\ ~gate'.open) => last_printed' = last_printed]_vars

\* A tick that started one second after 11:30 with gating on has ended with
\* its sleep: no code was evaluated and the label surfaced in an earlier
\* tick is still in last_printed.
C26_Witness ==
    /\ pc = "start"
    /\ GateClosed
    /\ gate.now = 41401
    /\ nap.taken
    /\ \A c \in Codes : cur[c] = NotYet
    /\ prev[codes[1]].surfaced
    /\ last_printed[codes[1]] = "buy"

\* C27: while the informational message of a code is on its way the new
\* label is already in last_printed; it stays there when send_to_lark has
\* returned False; and when the next tick produces the same label for that
\* code, the signal is not surfaced and no message is sent for it.
C27_MemoryCommittedBeforeDelivery ==
    \A c \in Codes :
        /\ (cur[c].info = 1 /\ pc = "send" /\ codes[idx] = c) =>
               last_printed[c] = cur[c].signal
        /\ (cur[c].info = 1 /\ cur[c].ret = "False") =>
               last_printed[c] = cur[c].signal
        /\ (/\ prev[c].info = 1 /\ prev[c].ret = "False"
            /\ cur[c].outcome = "report"
            /\ cur[c].signal = prev[c].signal) =>
               /\ ~cur[c].surfaced
               /\ cur[c].info = 0

\* The message for the label buy was not delivered in the previous tick
\* (send_to_lark returned False); this tick the label is buy again and
\* nothing is sent.
C27_Witness ==
    \E c \in Codes :
        /\ prev[c].info = 1 /\ prev[c].ret = "False"
        /\ prev[c].signal = "buy"
        /\ cur[c].outcome = "report" /\ cur[c].signal = "buy"
        /\ cur[c].info = 0
        /\ last_printed[c] = "buy"

\* The print filter of a configuration rejects a label: print_all_signals is
\* off and the label is outside the vocabulary that is surfaced.
Rejected(c, signal) ==
    /\ ~c.print_all_signals
    /\ signal \notin
           (IF c.use_t_signal THEN {"buy_now", "sell_now"}
            ELSE {"buy", "sell"} \cup
                 (IF c.print_bias THEN {"bias_buy", "bias_sell"} ELSE {}))

\* C28: last_printed[code] changes only in the step that surfaces a signal
\* of that code, and becomes that signal's label; a label the print filter
\* rejects is not surfaced and leaves last_printed as it was, so a label
\* that comes back after rejected ones is compared with the last surfaced
\* label and, being equal to it, is not surfaced.
C28_FilteredSignalsKeepMemory ==
    [][ /\ \A c \in Codes :
             last_printed'[c] # last_printed[c] =>
                 /\ ReportStep /\ c = codes[idx]
                 /\ cur'[c].surfaced
                 /\ last_printed'[c] = cur'[c].signal
        /\ ReportStep =>
             LET code == codes[idx]
             IN  /\ Rejected(cfg, cur'[code].signal) =>
                        /\ ~cur'[code].surfaced
                        /\ cur'[code].info = 0
                        /\ last_printed' = last_printed
                 /\ (/\ prev[code].outcome = "report"
                     /\ Rejected(cfg, prev[code].signal)
                     /\ cur'[code].signal = own_label[code]) =>
                        /\ ~cur'[code].surfaced
                        /\ cur'[code].info = 0
      ]_vars

\* Third tick with the filter on: buy was surfaced in the first tick,
\* bias-buy was rejected in the second, and the buy of the third tick is
\* not surfaced, last_printed still holding buy.
C28_Witness ==
    \E c \in Codes :
        /\ tick = 3
        /\ ~cfg.print_all_signals
        /\ prev[c].outcome = "report" /\ prev[c].signal = "bias_buy"
        /\ ~prev[c].surfaced
        /\ cur[c].outcome = "report" /\ cur[c].signal = "buy"
        /\ ~cur[c].surfaced /\ cur[c].info = 0
        /\ last_printed[c] = "buy"

\* A step in which main meets an error for codes[idx]: the signal function
\* raised, or its report holds an error marker.
ErrorStep ==
    pc = "code" /\ cur'[codes[idx]].outcome \in {"raise", "error_report"}

\* C29: a step that meets an error for a code leaves last_printed as it is;
\* the report that follows an error tick of the code is compared with the
\* label surfaced before the error: equal to it, it is not surfaced,
\* different from it, it is.
C29_ErrorTicksKeepMemory ==
    [][ /\ ErrorStep => last_printed' = last_printed
        /\ (/\ ReportStep
            /\ prev[codes[idx]].outcome \in {"raise", "error_report"}) =>
               LET code == codes[idx]
               IN  /\ last_printed[code] = own_label[code]
                   /\ cur'[code].signal = own_label[code] =>
                          ~cur'[code].surfaced /\ cur'[code].info = 0
                   /\ cur'[code].signal # own_label[code] =>
                          cur'[code].surfaced /\ cur'[code].info = 1
      ]_vars

\* buy was surfaced in the first tick, the second tick of the code ended in
\* an error message, and the buy of the third tick is suppressed.
C29_Witness ==
    \E c \in Codes :
        /\ tick = 3
        /\ prev[c].outcome \in {"raise", "error_report"}
        /\ prev[c].err = 1
        /\ cur[c].outcome = "report" /\ cur[c].signal = "buy"
        /\ ~cur[c].surfaced
        /\ last_printed[c] = "buy"

\* The calls of send_to_lark that main made for a code in this tick.
SentFor(c) == cur[c].info + cur[c].err

\* C30, the states: for every code main has called send_to_lark at most once
\* in the running tick, for an informational message or for an error
\* message; while a call is running it is the one call of the code at hand,
\* of the class the history says, every further invocation being one that
\* send_to_lark made itself; between the calls none is running.
C30_OneCallStates ==
    /\ \A c \in Codes : SentFor(c) <= 1
    /\ pc = "send" =>
           /\ calls # <<>>
           /\ SentFor(codes[idx]) = 1
           /\ calls[1].depth = 1
           /\ calls[1].is_error <=> cur[codes[idx]].err = 1
           /\ \A k \in 2..Len(calls) : calls[k].depth > 1
    /\ pc # "send" => stack = <<>> /\ calls = <<>>

\* C30: the states above, and a call is made for a code only in the step
\* that processes it, which happens once in a tick.
C30_AtMostOneCallPerCodeAndTick ==
    /\ []C30_OneCallStates
    /\ [][\A c \in Codes :
             SentFor(c)' > SentFor(c) =>
                 /\ pc = "code" /\ c = codes[idx]
                 /\ cur[c] = NotYet]_vars

\* One tick in which the first code got an error message and the second an
\* informational one, one call each.
C30_Witness ==
    /\ pc = "sleep"
    /\ cur[codes[1]].err = 1 /\ cur[codes[1]].info = 0
    /\ cur[codes[1]].ret \in {"True", "False"}
    /\ cur[codes[2]].info = 1 /\ cur[codes[2]].err = 0
    /\ cur[codes[2]].ret = "False"

====
